---------------------------- MODULE Spec2Model ----------------------------
(***************************************************************************)
(* A model of src/server.py: a thread-per-connection static-file HTTP      *)
(* server.  The listener thread (HttpServer.start) accepts connections and *)
(* constructs one HttpServer object per connection (HttpServer.__init__),  *)
(* whose run() method is executed by a new thread.                         *)
(*                                                                         *)
(* Text is modelled as sequences of one-character strings, so that the     *)
(* string functions the handler applies to the request line (split,        *)
(* unquote, splitext, lower, join, normpath) are computed, not assumed.    *)
(***************************************************************************)
EXTENDS Integers, Sequences, FiniteSets, TLC

(***************************************************************************)
(* Bounds of the model.                                                    *)
(***************************************************************************)
\* Number of connections the clients open in one behaviour of Spec.
NumConns == 2
\* The largest served file holds MaxChunks full chunks (plus one byte).
MaxChunks == 2

(***************************************************************************)
(* Program constants.                                                      *)
(***************************************************************************)
\* error_file.read(4096)
CHUNK == 4096
\* time.sleep(2)
DRAIN_DELAY == 2

(***************************************************************************)
(* Characters and strings.                                                 *)
(***************************************************************************)
NL == "\n"

\* The printable ASCII characters, 0x20 .. 0x7E, in code order (0x60, which
\* a string literal cannot hold, is written <grave>).
ASCII ==
  << " ", "!", "\"", "#", "$", "%", "&", "'", "(", ")", "*", "+", ",", "-", ".", "/",
     "0", "1", "2", "3", "4", "5", "6", "7", "8", "9", ":", ";", "<", "=", ">", "?",
     "@", "A", "B", "C", "D", "E", "F", "G", "H", "I", "J", "K", "L", "M", "N", "O",
     "P", "Q", "R", "S", "T", "U", "V", "W", "X", "Y", "Z", "[", "\\", "]", "^", "_",
     "<grave>", "a", "b", "c", "d", "e", "f", "g", "h", "i", "j", "k", "l", "m", "n", "o",
     "p", "q", "r", "s", "t", "u", "v", "w", "x", "y", "z", "{", "|", "}", "~" >>

\* Code of a printable character (32 .. 126).
Ord(c) == 31 + CHOOSE i \in 1..Len(ASCII) : ASCII[i] = c

IsPrintable(c) == \E i \in 1..Len(ASCII) : ASCII[i] = c

\* The character a decoded byte stands for.  Bytes outside printable ASCII
\* other than line feed decode to the replacement marker.
REPLACEMENT == "<?>"

Chr(b) ==
  IF b >= 32 /\ b <= 126 THEN ASCII[b - 31]
  ELSE IF b = 10 THEN NL
  ELSE REPLACEMENT

\* str.lower() and str.upper() on one character.
LowerChar(c) ==
  IF IsPrintable(c) /\ Ord(c) >= 65 /\ Ord(c) <= 90 THEN Chr(Ord(c) + 32) ELSE c

UpperChar(c) ==
  IF IsPrintable(c) /\ Ord(c) >= 97 /\ Ord(c) <= 122 THEN Chr(Ord(c) - 32) ELSE c

Lower(s) == [i \in 1..Len(s) |-> LowerChar(s[i])]

Upper(s) == [i \in 1..Len(s) |-> UpperChar(s[i])]

\* s[i:] of Python, i counted from 0.
From(s, i) == IF i >= Len(s) THEN << >> ELSE SubSeq(s, i + 1, Len(s))

\* s[:i] of Python.
Upto(s, i) == IF i <= 0 THEN << >> ELSE SubSeq(s, 1, IF i < Len(s) THEN i ELSE Len(s))

\* s.rfind(c) as a 1-based position, 0 when c does not occur.
RFind(s, c) ==
  IF \E i \in 1..Len(s) : s[i] = c
  THEN CHOOSE i \in 1..Len(s) : s[i] = c /\ \A j \in (i+1)..Len(s) : s[j] # c
  ELSE 0

\* s.find(c) as a 1-based position, 0 when c does not occur.
Find(s, c) ==
  IF \E i \in 1..Len(s) : s[i] = c
  THEN CHOOSE i \in 1..Len(s) : s[i] = c /\ \A j \in 1..(i-1) : s[j] # c
  ELSE 0

\* s.split(sep): the pieces between occurrences of sep, empty pieces kept.
RECURSIVE Split(_, _)
Split(s, sep) ==
  LET k == Find(s, sep) IN
  IF k = 0 THEN << s >>
  ELSE << Upto(s, k - 1) >> \o Split(From(s, k), sep)

\* sep.join(parts)
RECURSIVE JoinWith(_, _)
JoinWith(parts, sep) ==
  IF Len(parts) = 0 THEN << >>
  ELSE IF Len(parts) = 1 THEN parts[1]
  ELSE parts[1] \o << sep >> \o JoinWith(Tail(parts), sep)

(***************************************************************************)
(* urllib.parse.unquote: every %XX with two hexadecimal digits becomes the *)
(* character of that byte; any other % is kept.                            *)
(***************************************************************************)
IsHex(c) ==
  /\ IsPrintable(c)
  /\ \/ Ord(c) >= 48 /\ Ord(c) <= 57
     \/ Ord(c) >= 65 /\ Ord(c) <= 70
     \/ Ord(c) >= 97 /\ Ord(c) <= 102

HexVal(c) ==
  IF Ord(c) <= 57 THEN Ord(c) - 48
  ELSE IF Ord(c) <= 70 THEN Ord(c) - 55
  ELSE Ord(c) - 87

RECURSIVE unquote(_)
unquote(s) ==
  IF Len(s) = 0 THEN << >>
  ELSE IF s[1] = "%" /\ Len(s) >= 3 /\ IsHex(s[2]) /\ IsHex(s[3])
       THEN << Chr(16 * HexVal(s[2]) + HexVal(s[3])) >> \o unquote(From(s, 3))
       ELSE << s[1] >> \o unquote(Tail(s))

(***************************************************************************)
(* os.path.splitext, os.path.join and os.path.normpath (POSIX).            *)
(***************************************************************************)
\* The extension: from the last dot of the last component, unless that
\* component has only dots before it.
splitext_ext(p) ==
  LET sepIndex == RFind(p, "/")
      dotIndex == RFind(p, ".")
  IN IF dotIndex > sepIndex
        /\ \E k \in (sepIndex + 1)..(dotIndex - 1) : p[k] # "."
     THEN From(p, dotIndex - 1)
     ELSE << >>

path_join(a, b) ==
  IF Len(b) > 0 /\ b[1] = "/" THEN b
  ELSE IF Len(a) = 0 \/ a[Len(a)] = "/" THEN a \o b
  ELSE a \o << "/" >> \o b

\* The components normpath keeps, in order: a fold over path.split('/').
RECURSIVE NormComps(_, _, _)
NormComps(comps, acc, initial_slashes) ==
  IF Len(comps) = 0 THEN acc
  ELSE
    LET comp == comps[1]
        dotdot == << ".", "." >>
        rest == Tail(comps)
    IN IF comp = << >> \/ comp = << "." >> THEN NormComps(rest, acc, initial_slashes)
       ELSE IF \/ comp # dotdot
               \/ (initial_slashes = 0 /\ Len(acc) = 0)
               \/ (Len(acc) > 0 /\ acc[Len(acc)] = dotdot)
            THEN NormComps(rest, Append(acc, comp), initial_slashes)
       ELSE IF Len(acc) > 0
            THEN NormComps(rest, SubSeq(acc, 1, Len(acc) - 1), initial_slashes)
       ELSE NormComps(rest, acc, initial_slashes)

normpath(path) ==
  IF Len(path) = 0 THEN << "." >>
  ELSE
    LET initial_slashes ==
          IF path[1] # "/" THEN 0
          ELSE IF Len(path) >= 2 /\ path[2] = "/" /\ ~(Len(path) >= 3 /\ path[3] = "/")
               THEN 2
               ELSE 1
        body == JoinWith(NormComps(Split(path, "/"), << >>, initial_slashes), "/")
        full == [i \in 1..initial_slashes |-> "/"] \o body
    IN IF Len(full) = 0 THEN << "." >> ELSE full

(***************************************************************************)
(* Literals of the program.                                                *)
(***************************************************************************)
GET == << "G", "E", "T" >>
POST == << "P", "O", "S", "T" >>
get_lc == << "g", "e", "t" >>
HTTP_PREFIX == << "H", "T", "T", "P", "/" >>
P_1_0 == << "1", ".", "0" >>
P_1_1 == << "1", ".", "1" >>
DEFAULT_FILE == << "i", "n", "d", "e", "x", ".", "h", "t", "m", "l" >>
BAD_REQUEST == << "e", "r", "r", "o", "r", "/", "4", "0", "0", ".", "h", "t", "m", "l" >>
FORBIDDEN == << "e", "r", "r", "o", "r", "/", "4", "0", "3", ".", "h", "t", "m", "l" >>
FILE_NOT_FOUND == << "e", "r", "r", "o", "r", "/", "4", "0", "4", ".", "h", "t", "m", "l" >>
METHOD_NOT_SUPPORTED == << "e", "r", "r", "o", "r", "/", "5", "0", "1", ".", "h", "t", "m", "l" >>
DOCUMENT_ROOT == << "/", "s", "r", "v" >>
OTHER_DIR == << "/", "o", "p", "t" >>

\* supported_types of is_file_supported
supported_types ==
  { << ".", "p", "d", "f" >>,
    << ".", "j", "p", "e", "g" >>,
    << ".", "j", "p", "g" >>,
    << ".", "p", "n", "g" >>,
    << ".", "t", "x", "t" >>,
    << ".", "g", "i", "f" >>,
    << ".", "h", "t", "m", "l" >>,
    << ".", "m", "p", "4" >>,
    << ".", "j", "s", "o", "n" >>,
    << >>,
    << ".", "j", "s" >>,
    << ".", "c", "s", "s" >> }

(***************************************************************************)
(* The file system the server runs on.  A file's bytes are a function of   *)
(* its seed and of the position, so that a byte sent out of place or from  *)
(* another file differs from the byte expected.                            *)
(***************************************************************************)
FILES ==
  { [path |-> << "/", "s", "r", "v" >>,
      kind |-> "dir", readable |-> TRUE, size |-> 0, seed |-> 0],
    [path |-> << "/", "s", "r", "v", "/", "a", ".", "t", "x", "t" >>,
      kind |-> "file", readable |-> TRUE, size |-> 5, seed |-> 1],
    [path |-> << "/", "s", "r", "v", "/", "e", "m", "p", "t", "y", ".", "t", "x", "t" >>,
      kind |-> "file", readable |-> TRUE, size |-> 0, seed |-> 2],
    [path |-> << "/", "s", "r", "v", "/", "s", "e", "c", "r", "e", "t", ".", "t", "x", "t" >>,
      kind |-> "file", readable |-> FALSE, size |-> 3, seed |-> 3],
    [path |-> << "/", "s", "r", "v", "/", "s", "u", "b" >>,
      kind |-> "dir", readable |-> TRUE, size |-> 0, seed |-> 0],
    [path |-> << "/", "s", "r", "v", "/", "i", "n", "d", "e", "x", ".", "h", "t", "m", "l" >>,
      kind |-> "file", readable |-> TRUE, size |-> 4, seed |-> 4],
    [path |-> << "/", "s", "r", "v", "/", "e", "r", "r", "o", "r" >>,
      kind |-> "dir", readable |-> TRUE, size |-> 0, seed |-> 0],
    [path |-> << "/", "s", "r", "v", "/", "e", "r", "r", "o", "r", "/", "4", "0", "0", ".", "h", "t", "m", "l" >>,
      kind |-> "file", readable |-> TRUE, size |-> 6, seed |-> 5],
    [path |-> << "/", "s", "r", "v", "/", "e", "r", "r", "o", "r", "/", "4", "0", "3", ".", "h", "t", "m", "l" >>,
      kind |-> "file", readable |-> TRUE, size |-> 7, seed |-> 6],
    [path |-> << "/", "s", "r", "v", "/", "e", "r", "r", "o", "r", "/", "4", "0", "4", ".", "h", "t", "m", "l" >>,
      kind |-> "file", readable |-> TRUE, size |-> 8, seed |-> 7],
    [path |-> << "/", "s", "r", "v", "/", "b", "i", "g", ".", "t", "x", "t" >>,
      kind |-> "file", readable |-> TRUE, size |-> MaxChunks * CHUNK, seed |-> 8],
    [path |-> << "/", "s", "r", "v", "/", "b", "i", "g", "p", ".", "t", "x", "t" >>,
      kind |-> "file", readable |-> TRUE, size |-> MaxChunks * CHUNK + 1, seed |-> 9],
    [path |-> << "/", "o", "p", "t" >>,
      kind |-> "dir", readable |-> TRUE, size |-> 0, seed |-> 0],
    [path |-> << "/", "e", "t", "c" >>,
      kind |-> "dir", readable |-> TRUE, size |-> 0, seed |-> 0],
    [path |-> << "/", "e", "t", "c", "/", "p", "a", "s", "s", "w", "d" >>,
      kind |-> "file", readable |-> TRUE, size |-> 3, seed |-> 10] }

(***************************************************************************)
(* Request targets and request lines the clients of the model send.        *)
(***************************************************************************)
T_a == << "/", "a", ".", "t", "x", "t" >>
T_A_upper == << "/", "A", ".", "T", "X", "T" >>
T_a_enc == << "/", "%", "6", "1", ".", "t", "x", "t" >>
T_missing == << "/", "m", "i", "s", "s", "i", "n", "g", ".", "h", "t", "m", "l" >>
T_secret == << "/", "s", "e", "c", "r", "e", "t", ".", "t", "x", "t" >>
T_sub == << "/", "s", "u", "b" >>
T_slash == << "/" >>
T_exe == << "/", "a", ".", "e", "x", "e" >>
T_empty == << "/", "e", "m", "p", "t", "y", ".", "t", "x", "t" >>
T_big == << "/", "b", "i", "g", ".", "t", "x", "t" >>
T_bigp == << "/", "b", "i", "g", "p", ".", "t", "x", "t" >>
T_dotdot == << "/", ".", ".", "/", "e", "t", "c", "/", "p", "a", "s", "s", "w", "d" >>
T_abs == << "/", "/", "e", "t", "c", "/", "p", "a", "s", "s", "w", "d" >>
T_noslash == << "a", ".", "t", "x", "t" >>
T_asset == << "/", "e", "r", "r", "o", "r", "/", "4", "0", "4", ".", "h", "t", "m", "l" >>

HTTP_TOKEN == HTTP_PREFIX \o P_1_1

\* A full request line, as readline() returns it in text mode: the line
\* delimiter arrives as one line feed.
Req(method, target) == method \o << " " >> \o target \o << " " >> \o HTTP_TOKEN \o << NL >>

\* The request line of the specification with several connections, whose
\* claims are about the listener, the registry and teardown.
BasicLines ==
  { Req(GET, T_a) }

\* The request lines of the single-connection specification.
AllLines ==
  BasicLines \cup
  { << >>,                                    \* end of stream, nothing sent
    GET \o << NL >>,                          \* one token
    GET \o << " " >> \o T_a \o << NL >>,      \* two tokens, no version
    GET \o << " " >> \o T_sub \o << NL >>,    \* two tokens, no extension
    GET \o << " ", " " >> \o T_a \o << NL >>, \* two spaces: an empty target
    Req(get_lc, T_A_upper), Req(GET, T_a_enc), Req(GET, T_secret),
    Req(POST, T_a), Req(GET, T_missing),
    Req(GET, T_sub), Req(GET, T_slash), Req(GET, T_exe), Req(POST, T_missing),
    Req(GET, T_empty), Req(GET, T_big), Req(GET, T_bigp), Req(GET, T_dotdot),
    Req(GET, T_abs), Req(GET, T_noslash), Req(GET, T_asset) }

\* The request lines of the specification with fairness.
LiveLines ==
  { << >>, Req(GET, T_a), Req(GET, T_big), Req(GET, T_sub), Req(POST, T_a),
    Req(GET, T_missing), Req(GET, T_secret) }

(***************************************************************************)
(* File-system calls.  A relative path is resolved by the operating system *)
(* against the working directory of the process; a path that starts with   *)
(* two slashes names the same file as with one.                            *)
(***************************************************************************)
ABSENT == [path |-> << >>, kind |-> "absent", readable |-> FALSE, size |-> 0, seed |-> 0]

OsPath(wd, path) ==
  IF Len(path) > 0 /\ path[1] = "/"
  THEN IF Len(path) >= 2 /\ path[2] = "/" THEN Tail(path) ELSE path
  ELSE wd \o << "/" >> \o path

Lookup(wd, path) ==
  LET abs == OsPath(wd, path) IN
  IF \E e \in FILES : e.path = abs THEN CHOOSE e \in FILES : e.path = abs ELSE ABSENT

\* os.path.exists(path)
exists(wd, path) == Lookup(wd, path).kind # "absent"

\* os.access(path, os.R_OK)
access_R_OK(wd, path) == Lookup(wd, path).kind # "absent" /\ Lookup(wd, path).readable

\* open(path, 'rb') succeeds on a regular file the process may read.
can_open(wd, path) == Lookup(wd, path).kind = "file" /\ Lookup(wd, path).readable

\* os.path.getsize(path)
getsize(wd, path) == Lookup(wd, path).size

\* The bytes of a file.
ByteAt(e, i) == (e.seed * 31 + i * 7 + ((i - 1) \div CHUNK)) % 256

\* The bytes of every file, and of no file.
CONTENTS == [e \in FILES \cup { ABSENT } |-> [i \in 1..e.size |-> ByteAt(e, i)]]

Content(e) == CONTENTS[e]

(***************************************************************************)
(* HttpServer.is_file_supported, HttpServer.get_file_path                  *)
(***************************************************************************)
is_file_supported(filepath) == Lower(splitext_ext(filepath)) \in supported_types

\* The candidate path: the normalized join of the document root with the
\* default file name (target "/") or with the target minus its first
\* character.
candidate_path(file_name) ==
  LET name == IF file_name = << "/" >> THEN DEFAULT_FILE ELSE From(file_name, 1)
  IN normpath(path_join(DOCUMENT_ROOT, name))

NONE == << "<None>" >>

get_file_path(wd, file_name) ==
  IF exists(wd, candidate_path(file_name)) THEN candidate_path(file_name) ELSE NONE

(***************************************************************************)
(* HttpServer.run, lines 71-101: from the request line to the call of      *)
(* serve_file.  The result names the outcome and the arguments serve_file  *)
(* is called with.  bad_request, file_not_found and file_forbidden call    *)
(* serve_file without http_version, whose default is "HTTP/1.1".           *)
(***************************************************************************)
HTTP_1_0 == HTTP_PREFIX \o P_1_0
HTTP_1_1 == HTTP_PREFIX \o P_1_1

bad_request ==
  [outcome |-> "BadRequest", path |-> BAD_REQUEST,
   responsecode |-> "400 BadRequest", http_version |-> HTTP_1_1]

file_not_found ==
  [outcome |-> "NotFound", path |-> FILE_NOT_FOUND,
   responsecode |-> "404 FileNotFound", http_version |-> HTTP_1_1]

\* file_forbidden answering with the asset and the status of file_not_found.
file_forbidden_as_not_found ==
  [outcome |-> "Forbidden", path |-> FILE_NOT_FOUND,
   responsecode |-> "404 FileNotFound", http_version |-> HTTP_1_1]

file_forbidden ==
  [outcome |-> "Forbidden", path |-> FORBIDDEN,
   responsecode |-> "403 Forbidden", http_version |-> HTTP_1_1]

method_not_supported ==
  [outcome |-> "MethodNotSupported", path |-> METHOD_NOT_SUPPORTED,
   responsecode |-> "501 NotImplemented", http_version |-> HTTP_1_1]

serve_ok(proto, file_path) ==
  [outcome |-> "OK", path |-> file_path,
   responsecode |-> "200 OK", http_version |-> HTTP_PREFIX \o proto]

\* The method test without upper(): what line 81 would be if it compared
\* the method as sent.
method_is_get_case_sensitive(http_method) == http_method = GET

\* The method test of line 81.
method_is_get(http_method) == Upper(http_method) = GET

\* Line 81 split in two: a method other than GET calls method_not_supported.
route_with_501(proto, wd, visited_url) ==
  LET request_parts == Split(visited_url, " ") IN
  IF Len(request_parts) < 2 THEN bad_request
  ELSE
    LET http_method == request_parts[1]
        file_name == unquote(request_parts[2])
    IN IF ~method_is_get(http_method) THEN method_not_supported
       ELSE IF ~is_file_supported(file_name) THEN bad_request
       ELSE LET file_path == get_file_path(wd, file_name) IN
            IF file_path = NONE THEN file_not_found
            ELSE IF ~access_R_OK(wd, file_path) THEN file_forbidden
            ELSE serve_ok(proto, file_path)

route(proto, wd, visited_url) ==
  LET request_parts == Split(visited_url, " ") IN
  IF Len(request_parts) < 2 THEN bad_request
  ELSE
    LET http_method == request_parts[1]
        file_name == unquote(request_parts[2])
    IN IF ~method_is_get(http_method) \/ ~is_file_supported(file_name)
       THEN bad_request
       ELSE LET file_path == get_file_path(wd, file_name) IN
            IF file_path = NONE THEN file_not_found
            ELSE IF ~access_R_OK(wd, file_path) THEN file_forbidden
            ELSE serve_ok(proto, file_path)

(***************************************************************************)
(* The state.                                                              *)
(***************************************************************************)
VARIABLES
  protocol,           \* self.protocol: P_1_0 or P_1_1
  cwd,                \* the working directory of the server process
  inputs,             \* the request lines the clients of this run may send
  budget,             \* how many more connections the clients will open
  backlog,            \* connections in the listen queue, not yet accepted
  lpc,                \* where the listener thread is in start()
  lexc,               \* the exception that ended the listener loop
  count,              \* the loop counter of start()
  connected_clients,  \* HttpServer.connected_clients
  conns               \* the accepted connections, in order of accept

vars ==
  << protocol, cwd, inputs, budget, backlog, lpc, lexc, count,
     connected_clients, conns >>

\* server_socket.listen(3)
LISTEN_BACKLOG == 3

\* The peer addresses of the clients.
Peers == { "10.0.0.1", "10.0.0.2" }

Handlers == 1..Len(conns)

\* The HttpServer object of an accepted connection, before __init__ has run.
NewHandler(c) ==
  [ip |-> c.ip,               \* the peer address
   reset |-> c.reset,         \* the peer has reset the connection
   pc |-> "new",              \* where the handler is
   sock |-> "open",           \* self.connect
   line |-> << >>,            \* visited_url
   outcome |-> "none",
   path |-> NONE,             \* the arguments of serve_file
   responsecode |-> "none",
   http_version |-> << >>,
   opens |-> 0,               \* calls of open()
   fh |-> "unbound",          \* error_file: unbound, open or closed
   pos |-> 0,                 \* read position of error_file
   chunk |-> << >>,
   status |-> << >>,          \* the status line written: version, code
   clen |-> -1,               \* the Content-length written
   body |-> << >>,            \* the body bytes written
   timeout |-> FALSE,         \* settimeout() was called on the socket
   fault |-> FALSE,           \* a read or write raised inside serve_file
   exc |-> "none",            \* an exception propagating in run()
   handled |-> "none",        \* the exception run() caught at line 108
   uncaught |-> "none",       \* an exception that left run()
   slept |-> 0]               \* time units slept at line 105

(***************************************************************************)
(* Socket calls.                                                           *)
(***************************************************************************)
\* socket.getpeername(): "ok" (it returns the address), or the errno of the
\* OSError it raises: EBADF (errno 9, the one line 194 keeps silent about)
\* on a closed socket, ENOTCONN once the peer has reset.
getpeername(sock, reset) ==
  IF sock = "closed" THEN "EBADF"
  ELSE IF reset THEN "ENOTCONN"
  ELSE "ok"

(***************************************************************************)
(* Steps of a handler, as functions of its record.                         *)
(***************************************************************************)
\* An exception raised inside the with block of run(): the block is left.
raise_in_run(r, e) == [r EXCEPT !.exc = e, !.pc = "with_exit"]

\* run() without the delay of lines 104-106.
after_serve_no_delay(r) == "with_exit"

\* Where run() continues once serve_file has returned: after the call of
\* line 101 the HTTP/1.0 delay of lines 104-106, then the end of the with
\* block; bad_request, file_not_found and file_forbidden are followed by
\* return.
after_serve(r) ==
  IF r.outcome = "OK" /\ r.http_version = HTTP_1_0 THEN "sleep" ELSE "with_exit"

\* open() failed in serve_file: the except clause of line 160 prints, and
\* the finally clause closes error_file, a name that was never bound: the
\* UnboundLocalError leaves serve_file and its caller.
open_failed(r) == raise_in_run(r, "UnboundLocalError")

\* serve_file without its finally clause: after a fault the file stays
\* open.
serve_fault_leaves_file_open(r) ==
  [r EXCEPT !.fault = TRUE, !.chunk = << >>, !.pc = after_serve(r)]

\* serve_file answering a fault by serving the file once more.
serve_fault_retries(r) ==
  [r EXCEPT !.fault = TRUE, !.fh = "closed", !.chunk = << >>,
            !.pc = IF r.opens < 2 THEN "open" ELSE after_serve(r)]

\* A read or a write raised in serve_file: the except clause of line 160
\* prints, the finally clause closes the file, serve_file returns.
serve_fault(r) ==
  [r EXCEPT !.fault = TRUE, !.fh = "closed", !.chunk = << >>, !.pc = after_serve(r)]

\* A Content-length taken from the first chunk read instead of the file.
content_length_first_chunk(wd, path) ==
  IF getsize(wd, path) < CHUNK THEN getsize(wd, path) ELSE CHUNK

\* The Content-length header of line 146.
content_length(wd, path) == getsize(wd, path)

\* The header block of lines 141-150, written by one write, and the
\* settimeout of lines 153-154.
write_headers(r, wd) ==
  [r EXCEPT !.status = << r.http_version, r.responsecode >>,
            !.clen = content_length(wd, r.path),
            !.timeout = (r.http_version = HTTP_1_0),
            !.pc = "read"]

\* error_file.read(4096) at position pos.
read_chunk(content, pos) ==
  SubSeq(content, pos + 1, IF pos + CHUNK < Len(content) THEN pos + CHUNK ELSE Len(content))

\* A loop that ends at the first chunk shorter than CHUNK, unwritten.
after_read_drops_short_chunk(r, chunk) ==
  IF Len(chunk) < CHUNK
  THEN [r EXCEPT !.fh = "closed", !.pos = r.pos + Len(chunk), !.pc = after_serve(r)]
  ELSE [r EXCEPT !.chunk = chunk, !.pos = r.pos + Len(chunk), !.pc = "write"]

\* Lines 156-159 after a read: an empty chunk ends the loop, and the
\* finally clause closes the file; any other chunk is written next.
after_read(r, chunk) ==
  IF chunk = << >>
  THEN [r EXCEPT !.fh = "closed", !.pc = after_serve(r)]
  ELSE [r EXCEPT !.chunk = chunk, !.pos = r.pos + Len(chunk), !.pc = "write"]

\* run() without the socket in its with statement: the socket is still
\* open when close_connection runs.
with_exit_socket_left_open(r) ==
  [r EXCEPT !.handled = r.exc, !.exc = "none", !.pc = "close_connection"]

\* run() with "except OSError" at line 108: any other exception leaves
\* run() once the finally clause has run.
with_exit_catches_oserror_only(r) ==
  [r EXCEPT !.sock = "closed",
            !.handled = IF r.exc = "OSError" THEN r.exc ELSE "none",
            !.uncaught = IF r.exc \in { "none", "OSError" } THEN "none" ELSE r.exc,
            !.exc = "none",
            !.pc = "close_connection"]

\* run() with neither the socket in its with statement nor the finally
\* clause of lines 110-111: nothing closes the socket.
with_exit_no_finally(r) ==
  [r EXCEPT !.handled = r.exc, !.exc = "none", !.pc = "done"]

\* The end of the with block of line 65 (out_file, in_file and the socket
\* are closed) and the except clause of line 108.
with_exit(r) ==
  [r EXCEPT !.sock = "closed", !.handled = r.exc, !.exc = "none",
            !.pc = "close_connection"]

(***************************************************************************)
(* The clients.                                                            *)
(***************************************************************************)
\* A client connects; with reset it resets the connection at once.
ClientConnect(ip, reset) ==
  /\ budget > 0
  /\ lpc # "stopped"
  /\ Len(backlog) < LISTEN_BACKLOG
  /\ backlog' = Append(backlog, [ip |-> ip, reset |-> reset])
  /\ budget' = budget - 1
  /\ UNCHANGED << protocol, cwd, inputs, lpc, lexc, count, connected_clients, conns >>

(***************************************************************************)
(* The listener thread: HttpServer.start and HttpServer.__init__.          *)
(***************************************************************************)
\* A loop of start() that joins each thread it has started: the next
\* connection is accepted only when no handler is running.
AcceptAfterJoin ==
  /\ lpc = "accept"
  /\ Len(backlog) > 0
  /\ \A h \in Handlers : conns[h].pc \in { "done", "orphan" }
  /\ count' = count + 1
  /\ conns' = Append(conns, NewHandler(Head(backlog)))
  /\ backlog' = Tail(backlog)
  /\ lpc' = "init"
  /\ UNCHANGED << protocol, cwd, inputs, budget, lexc, connected_clients >>

\* Lines 49-51: accept returns a connection; HttpServer(...) is called.
Accept ==
  /\ lpc = "accept"
  /\ Len(backlog) > 0
  /\ count' = count + 1
  /\ conns' = Append(conns, NewHandler(Head(backlog)))
  /\ backlog' = Tail(backlog)
  /\ lpc' = "init"
  /\ UNCHANGED << protocol, cwd, inputs, budget, lexc, connected_clients >>

\* Lines 50, 56-59: accept times out; the exception ends the loop and the
\* server socket is closed.
AcceptTimeout ==
  /\ lpc = "accept"
  /\ Len(backlog) = 0
  /\ count' = count + 1
  /\ lexc' = "timeout"
  /\ lpc' = "stopped"
  /\ UNCHANGED << protocol, cwd, inputs, budget, backlog, connected_clients, conns >>

\* Lines 33-35, in the listener thread: getpeername and the membership
\* test.  An OSError of getpeername is not caught in __init__: it leaves
\* the loop of start() (lines 56-59), run() is never started.
Construct ==
  /\ lpc = "init"
  /\ LET h == Len(conns)
         errno == getpeername(conns[h].sock, conns[h].reset)
     IN IF errno # "ok"
        THEN /\ lexc' = "OSError"
             /\ lpc' = "stopped"
             /\ backlog' = << >>
             /\ conns' = [conns EXCEPT ![h].pc = "orphan"]
        ELSE /\ lpc' = IF conns[h].ip \notin connected_clients THEN "add" ELSE "spawn"
             /\ UNCHANGED << lexc, backlog, conns >>
  /\ UNCHANGED << protocol, cwd, inputs, budget, count, connected_clients >>

\* Lines 36-37.
Add ==
  /\ lpc = "add"
  /\ connected_clients' = connected_clients \cup { conns[Len(conns)].ip }
  /\ lpc' = "spawn"
  /\ UNCHANGED << protocol, cwd, inputs, budget, backlog, lexc, count, conns >>

\* Lines 52-53: the thread that executes run() is started.
Spawn ==
  /\ lpc = "spawn"
  /\ conns' = [conns EXCEPT ![Len(conns)].pc = "readline"]
  /\ lpc' = "accept"
  /\ UNCHANGED << protocol, cwd, inputs, budget, backlog, lexc, count, connected_clients >>

(***************************************************************************)
(* A handler thread: HttpServer.run and what it calls.                     *)
(***************************************************************************)
Set(h, r) == conns' = [conns EXCEPT ![h] = r]

OnlyConns ==
  UNCHANGED << protocol, cwd, inputs, budget, backlog, lpc, lexc, count, connected_clients >>

\* Lines 69-101, up to the call of serve_file: readline returns a line (or
\* nothing, at end of stream) and the request is routed, or readline
\* raises (the peer reset the connection, the bytes are not UTF-8).
Request(h) ==
  /\ conns[h].pc = "readline"
  /\ \/ \E l \in inputs :
          LET rt == route(protocol, cwd, l) IN
          Set(h, [conns[h] EXCEPT !.line = l, !.outcome = rt.outcome,
                                  !.path = rt.path,
                                  !.responsecode = rt.responsecode,
                                  !.http_version = rt.http_version,
                                  !.pc = "open"])
     \/ Set(h, raise_in_run(conns[h], "OSError"))
  /\ OnlyConns

\* Lines 133-137: open(file_path, 'rb').
Open(h) ==
  /\ conns[h].pc = "open"
  /\ LET r == [conns[h] EXCEPT !.opens = @ + 1] IN
     IF can_open(cwd, r.path)
     THEN Set(h, [r EXCEPT !.fh = "open", !.pos = 0, !.pc = "header"])
     ELSE Set(h, open_failed(r))
  /\ OnlyConns

\* Lines 139-154: the header block is written, or the write raises.
Header(h) ==
  /\ conns[h].pc = "header"
  /\ \/ Set(h, write_headers(conns[h], cwd))
     \/ Set(h, serve_fault(conns[h]))
  /\ OnlyConns

\* Lines 156 and 159: the next chunk is read, or the read raises.
Read(h) ==
  /\ conns[h].pc = "read"
  /\ \/ Set(h, after_read(conns[h],
                  read_chunk(Content(Lookup(cwd, conns[h].path)), conns[h].pos)))
     \/ Set(h, serve_fault(conns[h]))
  /\ OnlyConns

\* Line 158: the chunk is written, or the write raises.
Write(h) ==
  /\ conns[h].pc = "write"
  /\ \/ Set(h, [conns[h] EXCEPT !.body = @ \o conns[h].chunk, !.chunk = << >>,
                                !.pc = "read"])
     \/ Set(h, serve_fault(conns[h]))
  /\ OnlyConns

\* Lines 105-106: one time unit of time.sleep(2) passes; after the last
\* one the with block is left.
Sleep(h) ==
  /\ conns[h].pc = "sleep"
  /\ conns[h].slept < DRAIN_DELAY
  /\ Set(h, [conns[h] EXCEPT !.slept = @ + 1,
                             !.pc = IF conns[h].slept + 1 = DRAIN_DELAY
                                    THEN "with_exit" ELSE "sleep"])
  /\ OnlyConns

\* Lines 65-67 (exit of the with block) and 108-109.
WithExit(h) ==
  /\ conns[h].pc = "with_exit"
  /\ Set(h, with_exit(conns[h]))
  /\ OnlyConns

\* Lines 110-111 and 184-195: close_connection, one step per access to
\* the socket and to connected_clients.  KeyError is no OSError: raised by
\* remove, it leaves close_connection and run().
CloseConnection(h) ==
  /\ conns[h].pc \in { "close_connection", "cc_test", "cc_remove" }
  /\ LET r == conns[h]
         errno == getpeername(r.sock, r.reset)
     IN CASE r.pc = "close_connection" ->
               /\ IF errno = "ok"
                  THEN Set(h, [r EXCEPT !.sock = "closed", !.pc = "cc_test"])
                  ELSE Set(h, [r EXCEPT !.pc = "done"])
               /\ UNCHANGED connected_clients
          [] r.pc = "cc_test" ->
               /\ Set(h, [r EXCEPT !.pc = IF r.ip \in connected_clients
                                          THEN "cc_remove" ELSE "done"])
               /\ UNCHANGED connected_clients
          [] r.pc = "cc_remove" ->
               IF r.ip \in connected_clients
               THEN /\ connected_clients' = connected_clients \ { r.ip }
                    /\ Set(h, [r EXCEPT !.pc = "done"])
               ELSE /\ Set(h, [r EXCEPT !.uncaught = "KeyError", !.pc = "done"])
                    /\ UNCHANGED connected_clients
  /\ UNCHANGED << protocol, cwd, inputs, budget, backlog, lpc, lexc, count >>

(***************************************************************************)
(* Specifications.                                                         *)
(***************************************************************************)
Protocols == { P_1_0, P_1_1 }

\* Several connections, one request line; the server was started in the
\* document root.
Init ==
  /\ protocol \in Protocols
  /\ cwd = DOCUMENT_ROOT
  /\ inputs = BasicLines
  /\ budget = NumConns
  /\ backlog = << >>
  /\ lpc = "accept"
  /\ lexc = "none"
  /\ count = 0
  /\ connected_clients = { }
  /\ conns = << >>

\* One client, every request line; the server was started in the document
\* root or elsewhere.
InitOne ==
  /\ protocol \in Protocols
  /\ cwd \in { DOCUMENT_ROOT, OTHER_DIR }
  /\ inputs = AllLines
  /\ budget = 1
  /\ backlog = << >>
  /\ lpc = "accept"
  /\ lexc = "none"
  /\ count = 0
  /\ connected_clients = { }
  /\ conns = << >>

Next ==
  \/ \E ip \in Peers, reset \in BOOLEAN : ClientConnect(ip, reset)
  \/ Accept
  \/ AcceptTimeout
  \/ Construct
  \/ Add
  \/ Spawn
  \/ \E h \in Handlers : Request(h)
  \/ \E h \in Handlers : Open(h)
  \/ \E h \in Handlers : Header(h)
  \/ \E h \in Handlers : Read(h)
  \/ \E h \in Handlers : Write(h)
  \/ \E h \in Handlers : Sleep(h)
  \/ \E h \in Handlers : WithExit(h)
  \/ \E h \in Handlers : CloseConnection(h)

Spec == Init /\ [][Next]_vars

SpecOne == InitOne /\ [][Next]_vars

\* The steps of handler h that happen once its thread is scheduled: every
\* step after readline has returned, except a write that finds earlier
\* body bytes unsent on a socket without timeout: it blocks for as long as
\* the peer neither reads nor closes.  The timeout is set at lines 153-154,
\* for the HTTP/1.0 response to a request that was routed to line 101 only.
Progress(h) ==
  /\ h \in Handlers
  /\ \/ Open(h)
     \/ Header(h)
     \/ Read(h)
     \/ (conns[h].timeout \/ conns[h].body = << >>) /\ Write(h)
     \/ Sleep(h)
     \/ WithExit(h)
     \/ CloseConnection(h)

\* One client and a request line for each way through run(): 200 OK for a
\* file of one chunk and of several, a directory (open fails), 400, 404,
\* 403, end of stream.
InitLive ==
  /\ protocol \in Protocols
  /\ cwd \in { DOCUMENT_ROOT, OTHER_DIR }
  /\ inputs = LiveLines
  /\ budget = 1
  /\ backlog = << >>
  /\ lpc = "accept"
  /\ lexc = "none"
  /\ count = 0
  /\ connected_clients = { }
  /\ conns = << >>

\* The same, each handler thread fairly scheduled.
SpecLive ==
  InitLive /\ [][Next]_vars /\ \A h \in 1..NumConns : WF_vars(Progress(h))

(***************************************************************************)
(* What the claims speak about, read off the request line and the file     *)
(* system rather than off the handler's own decisions.                     *)
(***************************************************************************)
\* The number of tokens of a request line: one more than its spaces.
NumTokens(line) == 1 + Cardinality({ i \in 1..Len(line) : line[i] = " " })

\* The method: the text before the first space.
MethodOf(line) == Upto(line, Find(line, " ") - 1)

\* The percent-decoded target: the text between the first space and the
\* next one (or the end of the line).
TargetOf(line) ==
  LET rest == From(line, Find(line, " "))
      k == Find(rest, " ")
  IN unquote(IF k = 0 THEN rest ELSE Upto(rest, k - 1))

IsGet(line) == Lower(MethodOf(line)) = get_lc

HasSupportedExtension(line) == Lower(splitext_ext(TargetOf(line))) \in supported_types

\* A GET request for a target with a supported extension.
IsGetSupported(line) ==
  NumTokens(line) >= 2 /\ IsGet(line) /\ HasSupportedExtension(line)

\* The path the target of a request line resolves to, for a target other
\* than "/".
ResolvedOf(line) == normpath(path_join(DOCUMENT_ROOT, From(TargetOf(line), 1)))

\* The handler has chosen its outcome.
Routed(r) == r.outcome # "none"

\* The status the handler has written ("none" when it has written none).
StatusOf(r) == IF r.status = << >> THEN "none" ELSE r.status[2]

\* s is a prefix of t.
IsPrefix(s, t) == Len(s) <= Len(t) /\ s = SubSeq(t, 1, Len(s))

Errors == { "BadRequest", "NotFound", "Forbidden" }

(***************************************************************************)
(* C1.  For every GET request (any letter case) whose decoded target t is  *)
(* not "/" and has a supported extension, the handler resolves t to the    *)
(* normalized join of the document root with t minus its first character,  *)
(* and the response written is 200 OK if and only if that path exists and  *)
(* is readable.  Stated for handlers that finished without an I/O fault.   *)
(* The code violates it: a readable directory is routed to serve_file,     *)
(* whose open() fails, and nothing is written.                             *)
(***************************************************************************)
C1_OkIffExistsAndReadable ==
  \A h \in Handlers :
    LET r == conns[h] IN
    (r.pc = "done" /\ Routed(r) /\ ~r.fault
       /\ IsGetSupported(r.line) /\ TargetOf(r.line) # << "/" >>)
    => /\ r.outcome = "OK" => r.path = ResolvedOf(r.line)
       /\ StatusOf(r) = "200 OK"
            <=> (exists(cwd, ResolvedOf(r.line)) /\ access_R_OK(cwd, ResolvedOf(r.line)))

(***************************************************************************)
(* C2.  The outcome is BadRequest exactly when the request line has fewer  *)
(* than two tokens, or the method is not GET (case-insensitive), or the    *)
(* target's extension is not supported, whether or not the target exists   *)
(* or is readable; the handler then serves the 400 asset only (no byte     *)
(* that is not of that asset is sent, no other file is opened) and         *)
(* returns: it never enters the HTTP/1.0 delay.                            *)
(***************************************************************************)
C2_BadRequestExactly ==
  \A h \in Handlers :
    LET r == conns[h] IN
    Routed(r) =>
      /\ r.outcome = "BadRequest"
           <=> (NumTokens(r.line) < 2 \/ ~IsGet(r.line) \/ ~HasSupportedExtension(r.line))
      /\ r.outcome = "BadRequest" =>
           /\ r.path = BAD_REQUEST
           /\ r.opens <= 1
           /\ IsPrefix(r.body, Content(Lookup(cwd, BAD_REQUEST)))
           /\ StatusOf(r) \in { "none", "400 BadRequest" }
           /\ r.pc # "sleep" /\ r.slept = 0

\* A finished 400 for a method other than GET whose target exists and is
\* readable.
C2_Witness ==
  \E h \in Handlers :
    /\ conns[h].pc = "done"
    /\ conns[h].outcome = "BadRequest"
    /\ StatusOf(conns[h]) = "400 BadRequest"
    /\ NumTokens(conns[h].line) >= 2
    /\ ~IsGet(conns[h].line)
    /\ access_R_OK(cwd, ResolvedOf(conns[h].line))

(***************************************************************************)
(* C3 as stated: for a GET request with a supported extension, a resolved  *)
(* path that does not exist gets the response 404 FileNotFound and one     *)
(* that exists but is not readable gets 403 Forbidden.  Stated for         *)
(* handlers that finished without an I/O fault.                            *)
(***************************************************************************)
IsMissing(line) == IsGetSupported(line) /\ ~exists(cwd, candidate_path(TargetOf(line)))

IsUnreadable(line) ==
  /\ IsGetSupported(line)
  /\ exists(cwd, candidate_path(TargetOf(line)))
  /\ ~access_R_OK(cwd, candidate_path(TargetOf(line)))

C4_TeardownRemovesPeer ==
  [][\A h \in Handlers :
       (conns[h].pc # "done" /\ conns'[h].pc = "done")
       => (conns'[h].sock = "closed" /\ conns[h].ip \notin connected_clients')]_vars

(***************************************************************************)
(* C5.  Per-connection failures are isolated: a fault of one connection    *)
(* never stops the listener loop.  The loop then ends only when accept     *)
(* itself times out.  The code violates it: getpeername in __init__ runs   *)
(* in the listener thread inside the loop of start(); for a peer that has  *)
(* reset it raises, and the exception ends the loop.                       *)
(***************************************************************************)
C5_PeerFaultNeverStopsListener ==
  lpc = "stopped" => lexc = "timeout"

(***************************************************************************)
(* C6.  The registry is accessed under mutual exclusion: at most one       *)
(* thread is between a membership test and the update that follows it;     *)
(* the result of the listener's test still holds when it adds; a teardown  *)
(* never removes an address that is absent (no KeyError leaves run());     *)
(* the address the listener has added is in the registry when the handler  *)
(* is started.                                                             *)
(***************************************************************************)
InSection ==
  { h \in Handlers : conns[h].pc = "cc_remove" }

ServedOk10(r) ==
  /\ r.outcome = "OK" /\ r.http_version = HTTP_1_0
  /\ StatusOf(r) = "200 OK" /\ ~r.fault /\ r.fh = "closed"

C7_DrainDelay ==
  /\ [](\A h \in Handlers :
          ServedOk10(conns[h]) =>
            /\ conns[h].pc = "sleep" => conns[h].sock = "open"
            /\ conns[h].sock = "closed" => conns[h].slept = DRAIN_DELAY)
  /\ [][\A h \in Handlers :
          (ServedOk10(conns[h]) /\ conns[h].pc = "sleep") =>
            /\ conns'[h].sock = "open"
            /\ conns'[h].line = conns[h].line
            /\ conns'[h].status = conns[h].status
            /\ conns'[h].body = conns[h].body
            /\ conns'[h].pc # "sleep" => conns'[h].slept = DRAIN_DELAY]_vars

\* A handler in the middle of the delay, its response complete.
C7_Witness ==
  \E h \in Handlers :
    /\ ServedOk10(conns[h])
    /\ conns[h].pc = "sleep"
    /\ conns[h].slept = 1
    /\ conns[h].body = Content(Lookup(cwd, conns[h].path))

C9_ContentLength ==
  \A h \in Handlers :
    LET r == conns[h] IN
    StatusOf(r) # "none" =>
      /\ r.clen = Len(Content(Lookup(cwd, r.path)))
      /\ (r.fh = "closed" /\ ~r.fault) => r.clen = Len(r.body)

\* A complete error response whose requested target has another size than
\* the asset sent.
C9_Witness ==
  \E h \in Handlers :
    /\ conns[h].pc = "done"
    /\ ~conns[h].fault
    /\ conns[h].outcome = "Forbidden"
    /\ conns[h].clen = getsize(cwd, FORBIDDEN)
    /\ conns[h].clen # getsize(cwd, candidate_path(TargetOf(conns[h].line)))

(***************************************************************************)
(* C10.  When the outcome is BadRequest, NotFound or Forbidden and the     *)
(* error asset cannot be opened, the handler writes nothing, opens nothing *)
(* else (no fallback response), and completes teardown: the socket is      *)
(* closed and no exception leaves run().                                   *)
(***************************************************************************)
C10_AssetOpenFailure ==
  \A h \in Handlers :
    LET r == conns[h] IN
    (r.outcome \in Errors /\ ~can_open(cwd, r.path)) =>
      /\ StatusOf(r) = "none" /\ r.clen = -1 /\ r.body = << >>
      /\ r.opens <= 1
      /\ r.pc \in { "open", "with_exit", "close_connection", "done" }
      /\ r.uncaught = "none"
      /\ r.pc = "done" => (r.sock = "closed" /\ r.exc = "none" /\ r.opens = 1)

\* A finished handler whose 404 asset could not be opened.
C10_Witness ==
  \E h \in Handlers :
    /\ conns[h].pc = "done"
    /\ conns[h].outcome = "NotFound"
    /\ ~can_open(cwd, conns[h].path)
    /\ conns[h].handled = "UnboundLocalError"

(***************************************************************************)
(* C11.  When serve_file cannot open the given path it writes nothing and  *)
(* returns normally: no exception propagates out of it, and its caller     *)
(* goes on with its remaining steps (after the call of line 101 under      *)
(* HTTP/1.0, the delay) and teardown.  The code violates it: the finally   *)
(* clause of line 163 closes error_file, which was never bound, and the    *)
(* UnboundLocalError leaves serve_file; run() catches it at line 108, so   *)
(* the delay of lines 104-106 is skipped.                                  *)
(***************************************************************************)
C11_OpenFailureReturnsNormally ==
  \A h \in Handlers :
    LET r == conns[h] IN
    (r.opens = 1 /\ ~can_open(cwd, r.path)) =>
      /\ StatusOf(r) = "none" /\ r.body = << >>
      /\ r.exc = "none" /\ r.handled = "none"
      /\ (r.pc = "done" /\ r.outcome = "OK" /\ r.http_version = HTTP_1_0)
           => r.slept = DRAIN_DELAY

(***************************************************************************)
(* C12.  The listener never waits for a handler: while the loop of start() *)
(* runs, a pending connection can be accepted whatever the handlers are    *)
(* doing (the HTTP/1.0 delay included), the listener's steps between       *)
(* accept and thread start are always possible, and a listener step        *)
(* changes no handler that is already running.  Nothing bounds the number  *)
(* of handlers running at once: every accepted connection can be running   *)
(* while the next one is accepted.                                         *)
(***************************************************************************)
Running == { h \in Handlers : conns[h].pc \notin { "new", "done", "orphan" } }

C12_ListenerNeverWaits ==
  /\ []((lpc = "accept" /\ Len(backlog) > 0) => ENABLED Accept)
  /\ [](lpc \in { "init", "add", "spawn" } => ENABLED (Construct \/ Add \/ Spawn))
  /\ [][(Accept \/ Construct \/ Add \/ Spawn) =>
          \A h \in Running : conns'[h] = conns[h]]_vars

\* A connection is pending at accept while every handler accepted so far
\* is running, one of them inside the HTTP/1.0 delay.
C12_Witness ==
  /\ lpc = "accept"
  /\ Len(backlog) > 0
  /\ Running = Handlers
  /\ \E h \in Handlers : conns[h].pc = "sleep"

(***************************************************************************)
(* C13.  serve_file never leaks a file handle: the file it opened is open  *)
(* only while serve_file is between open() and its finally clause; after   *)
(* normal completion, after a read or write fault in the middle of the     *)
(* body and after a fault at the header write the file is closed, so a     *)
(* handler that is past serve_file, or has finished, holds no open file.   *)
(***************************************************************************)
C13_NoFileHandleLeak ==
  \A h \in Handlers :
    LET r == conns[h] IN
    /\ r.fh = "open" => r.pc \in { "header", "read", "write" }
    /\ r.opens <= 1
    /\ (r.opens = 1 /\ can_open(cwd, r.path) /\ r.pc \notin { "header", "read", "write" })
         => r.fh = "closed"
    /\ r.pc = "done" => r.fh # "open"

\* A handler finished after a fault in the middle of the body.
C13_Witness ==
  \E h \in Handlers :
    /\ conns[h].pc = "done"
    /\ conns[h].fault
    /\ conns[h].fh = "closed"
    /\ conns[h].body # << >>
    /\ Len(conns[h].body) < getsize(cwd, conns[h].path)

(***************************************************************************)
(* C14.  No execution selects the MethodNotSupported outcome or writes a   *)
(* 501 NotImplemented status line, and the 501 asset is never opened: for  *)
(* every request line the status written is one of 200, 400, 403, 404, or  *)
(* nothing is written.                                                     *)
(***************************************************************************)
C14_Never501 ==
  \A h \in Handlers :
    LET r == conns[h] IN
    /\ r.outcome # "MethodNotSupported"
    /\ r.path # METHOD_NOT_SUPPORTED
    /\ r.responsecode # "501 NotImplemented"
    /\ StatusOf(r) \in { "none", "200 OK", "400 BadRequest", "403 Forbidden",
                         "404 FileNotFound" }

\* A finished request with the method POST, answered 400.
C14_Witness ==
  \E h \in Handlers :
    /\ conns[h].pc = "done"
    /\ NumTokens(conns[h].line) >= 2
    /\ Upper(MethodOf(conns[h].line)) = POST
    /\ StatusOf(conns[h]) = "400 BadRequest"

(***************************************************************************)
(* C15.  In every state in which the listener is not in the middle of      *)
(* __init__, connected_clients holds exactly the peer addresses that have  *)
(* at least one connection accepted and not yet torn down.  The code       *)
(* violates it: teardown never removes an address (C4), so the address of  *)
(* a finished connection stays in the registry.                            *)
(***************************************************************************)
Live == { h \in Handlers : conns[h].pc \notin { "done", "orphan" } }

C15_RegistryExact ==
  lpc \notin { "init", "add" } =>
    connected_clients = { conns[h].ip : h \in Live }

(***************************************************************************)
(* C16 as stated: once the request-line read of a handler has returned,    *)
(* under fair scheduling of that handler its socket is eventually closed.  *)
(***************************************************************************)
Returned(h) == h \in Handlers /\ Routed(conns[h])

Closed(h) == h \in Handlers /\ conns[h].sock = "closed"

C16_Original ==
  \A h \in 1..NumConns : Returned(h) ~> Closed(h)

(***************************************************************************)
(* C16, amended.  Once the request-line read of a handler has returned,    *)
(* under fair scheduling of that handler its socket is eventually closed   *)
(* (on the OK path, on every error-response path and after any fault       *)
(* raised during handling) unless the handler stays blocked for ever in a  *)
(* write of a later body chunk on a socket that has no timeout, which is   *)
(* every socket except that of an HTTP/1.0 200 OK response.                *)
(***************************************************************************)
Blocked(h) ==
  /\ h \in Handlers
  /\ conns[h].pc = "write"
  /\ ~conns[h].timeout
  /\ conns[h].body # << >>

C16_EventualTeardown ==
  \A h \in 1..NumConns : [](Returned(h) => (<>Closed(h) \/ <>[]Blocked(h)))

\* A 200 OK response cut short by a fault in the body, its handler
\* finished and its socket closed.
C16_Witness ==
  \E h \in Handlers :
    /\ conns[h].pc = "done"
    /\ conns[h].sock = "closed"
    /\ conns[h].fault
    /\ conns[h].outcome = "OK"
    /\ conns[h].handled = "none"

(***************************************************************************)
(* C17.  Every response written, the error responses 400, 403 and 404      *)
(* included, has a status line that begins with the configured protocol    *)
(* version.  The code violates it: bad_request, file_not_found and         *)
(* file_forbidden call serve_file without http_version, whose default is   *)
(* "HTTP/1.1", whatever the configured protocol.                           *)
(***************************************************************************)
C17_StatusLineVersion ==
  \A h \in Handlers :
    conns[h].status # << >> => conns[h].status[1] = HTTP_PREFIX \o protocol

(***************************************************************************)
(* C18.  Every file whose content is sent in a 200 OK response lies under  *)
(* the document root, also for targets with ".." segments and targets      *)
(* whose remainder after the first character is an absolute path.  The     *)
(* code violates it: get_file_path joins and normalizes but never compares *)
(* the result with the document root.                                      *)
(***************************************************************************)
UnderRoot(path) == path = DOCUMENT_ROOT \/ IsPrefix(DOCUMENT_ROOT \o << "/" >>, path)

C18_ServedUnderRoot ==
  \A h \in Handlers :
    StatusOf(conns[h]) = "200 OK" => UnderRoot(conns[h].path)

(***************************************************************************)
(* C19.  On one connection at most one response is written: serve_file is  *)
(* entered once; the header block is written once, by one write, before    *)
(* any body byte; the body grows only by the chunk just read, so chunks go *)
(* out in file order and each is written before the next is read; nothing  *)
(* is written once the file is closed.                                     *)
(***************************************************************************)
Serving == { "header", "read", "write" }

C19_OneResponseInOrder ==
  /\ [](\A h \in Handlers :
          LET r == conns[h] IN
          /\ r.opens <= 1
          /\ r.pc = "header" => (r.status = << >> /\ r.body = << >>)
          /\ r.body # << >> => r.status # << >>
          /\ r.chunk # << >> => r.pc = "write"
          /\ IsPrefix(r.body, Content(Lookup(cwd, r.path))))
  /\ [][\A h \in Handlers :
          LET r == conns[h]
              s == conns'[h]
          IN /\ s.status # r.status =>
                  (r.pc = "header" /\ r.status = << >> /\ r.body = << >> /\ s.body = << >>)
             /\ s.body # r.body =>
                  (r.pc = "write" /\ r.status # << >> /\ s.body = r.body \o r.chunk
                     /\ s.chunk = << >>)
             /\ (r.pc = "read" /\ s.pc = "write") =>
                  s.chunk = SubSeq(Content(Lookup(cwd, r.path)), Len(r.body) + 1, s.pos)
             /\ (r.opens = 1 /\ r.pc \notin Serving) =>
                  (s.status = r.status /\ s.body = r.body /\ s.pc \notin Serving)]_vars

\* The second chunk of a file is about to be written, the header and the
\* first chunk having been written.
C19_Witness ==
  \E h \in Handlers :
    /\ conns[h].pc = "write"
    /\ conns[h].status # << >>
    /\ Len(conns[h].body) = CHUNK
    /\ conns[h].chunk # << >>

=============================================================================
